---- MODULE Spec2Model ----
(***************************************************************************)
(* GRUCellLayer of nntrainer (nntrainer/layers/grucell.cpp): the unrolled, *)
(* weight-tied GRU cell.  One cell instance exists per timestep position   *)
(* (property Timestep); the instances share the weights, their gradients   *)
(* and the hidden-state ring (requested with private = false), and each    *)
(* instance owns its gate scratch zrg, its gradient d_zrg, its dropout     *)
(* mask and its input / output / derivative tensors.                       *)
(*                                                                         *)
(* Tensors are matrices (sequences of rows) of integer-valued floats: every *)
(* arithmetic result is rounded to a 24-bit significand as IEEE single     *)
(* precision does, so sums are exact below 2^24 and round above it.  The   *)
(* activations modelled are the ones that are exact on integers            *)
(* (ACT_NONE, ACT_RELU).  Rates are in thousandths (epsilon = 1e-3 = 1).   *)
(***************************************************************************)
EXTENDS Integers, Sequences, FiniteSets, TLC

VARIABLES
  props,                \* grucell_props + disable_bias, fixed at construction
  wt_idx,               \* GRUCellParams -> index handed out by the context
  input_dim,            \* the input dimension finalize saw
  weights,              \* weight_ih, weight_hh, bias_h, bias_ih, bias_hh
  grads,                \* their gradients (the parameter-gradient accumulators)
  hidden_states,        \* shared ring, max_timestep * batch rows
  d_hidden_states,      \* its gradient ring
  zrg,                  \* per instance: gate scratch
  d_zrg,                \* per instance: gradient of the gate scratch
  dropout_mask,         \* per instance: dropout mask
  input,                \* per instance: context.getInput
  output,               \* per instance: context.getOutput
  incoming_derivative,  \* per instance: context.getIncomingDerivative
  outgoing_derivative,  \* per instance: context.getOutgoingDerivative
  pc,                   \* position of the driver
  last                  \* the call the driver made last

vars == <<props, wt_idx, input_dim, weights, grads, hidden_states,
          d_hidden_states, zrg, d_zrg, dropout_mask, input, output,
          incoming_derivative, outgoing_derivative, pc, last>>

----------------------------------------------------------------------------
(* Bounds of the model *)

MaxTimestep == 2     \* max_timestep ranges over 1..MaxTimestep
MaxBatch == 2        \* batch sizes range over 1..MaxBatch
UnitSize == 2        \* props::Unit
FeatureSize == 1     \* width of the input

(* Program constants *)

NUM_GATE == 3
epsilon == 1
UNSET == -1          \* std::numeric_limits<unsigned>::max()

GRUCellParams ==
  {"weight_ih", "weight_hh", "bias_h", "bias_ih", "bias_hh",
   "hidden_state", "zrg", "dropout_mask"}

ActivationTypes == {"ACT_NONE", "ACT_RELU"}
DropOutRates == {epsilon, 500}

----------------------------------------------------------------------------
(* float arithmetic on integer values *)

FloatMantissa == 2^24

Abs(x) == IF x < 0 THEN -x ELSE x

RECURSIVE Quantum(_, _)
Quantum(a, q) == IF a \div q < FloatMantissa THEN q ELSE Quantum(a, 2 * q)

\* round to nearest, ties to even, on a 24-bit significand
Round(x) ==
  IF x < FloatMantissa /\ -x < FloatMantissa THEN x ELSE
  LET a == Abs(x)
      q == Quantum(a, 1)
      k == a \div q
      r == a % q
      n == IF 2 * r > q \/ (2 * r = q /\ k % 2 = 1) THEN k + 1 ELSE k
  IN  IF x < 0 THEN -(n * q) ELSE n * q

FAdd(a, b) == Round(a + b)
FMul(a, b) == Round(a * b)

----------------------------------------------------------------------------
(* Tensor primitives *)

\* the element of a one-element set: TheOne({e(v) : v \in {d}}) is e with v
\* standing for the value of d, computed once
TheOne(S) == CHOOSE r \in S : TRUE

Rows(m) == Len(m)
Cols(m) == IF Len(m) = 0 THEN 0 ELSE Len(m[1])
SameDim(a, b) == Rows(a) = Rows(b) /\ Cols(a) = Cols(b)

\* the tensor with the elements of m, stored element by element
Matrix(m) == [i \in DOMAIN m |-> m[i] \o <<>>] \o <<>>

Tensor(r, c, v) == Matrix([i \in 1..r |->
    [j \in 1..c |->
      v]])
setZero(m) == Tensor(Rows(m), Cols(m), 0)

\* a view of `width` columns starting at column `offset`
getSharedDataTensor(m, width, offset) ==
  Matrix([i \in 1..Rows(m) |->
      [j \in 1..width |->
        m[i][offset + j]]])

\* the tensor m after its view at `offset` was given the value v
putSharedData(m, offset, v) ==
  Matrix([i \in 1..Rows(m) |->
      [j \in 1..Cols(m) |->
        IF j > offset /\ j <= offset + Cols(v)
        THEN v[i][j - offset] ELSE m[i][j]]])

\* slot `t` of a ring reshaped to {max_timestep, 1, batch, unit}
getBatchSlice(m, t, batch) == [i \in 1..batch |-> m[t * batch + i]] \o <<>>

putBatchSlice(m, t, v) ==
  [i \in 1..Rows(m) |->
     IF i > t * Rows(v) /\ i <= (t + 1) * Rows(v) THEN v[i - t * Rows(v)]
     ELSE m[i]] \o <<>>

Transpose(m) == Matrix([j \in 1..Cols(m) |->
    [i \in 1..Rows(m) |->
      m[i][j]]])

RECURSIVE SumTo(_, _)
SumTo(f, k) == IF k = 0 THEN 0 ELSE FAdd(SumTo(f, k - 1), f[k])

MatMul(a, b) ==
  Matrix([i \in 1..Rows(a) |->
      [j \in 1..Cols(b) |->
        SumTo([k \in 1..Cols(a) |-> FMul(a[i][k], b[k][j])], Cols(a))]])

\* element-wise a + alpha * m; a one-row m is broadcast over the batch
add(a, m, alpha) ==
  Matrix([i \in 1..Rows(a) |->
      [j \in 1..Cols(a) |->
        FAdd(a[i][j], FMul(alpha, m[IF Rows(m) = 1 THEN 1 ELSE i][j]))]])

add_scalar(a, v) ==
  Matrix([i \in 1..Rows(a) |->
      [j \in 1..Cols(a) |->
        FAdd(a[i][j], v)]])

multiply_scalar(a, v) ==
  Matrix([i \in 1..Rows(a) |->
      [j \in 1..Cols(a) |->
        FMul(a[i][j], v)]])

multiply(a, m) ==
  Matrix([i \in 1..Rows(a) |->
      [j \in 1..Cols(a) |->
        FMul(a[i][j], m[i][j])]])

\* a.multiply_strided(m, out, beta): out = beta * out + a (*) m
multiply_strided(a, m, out, beta) ==
  IF beta = 0 THEN multiply(a, m) ELSE add(multiply(a, m), out, beta)

\* a.dot(m, out, trans, trans_m, beta): out = beta * out + a . m
dot(a, m, out, trans, trans_m, beta) ==
  LET p == MatMul(IF trans THEN Transpose(a) ELSE a,
                  IF trans_m THEN Transpose(m) ELSE m)
  IN  IF beta = 0 THEN p ELSE add(p, out, beta)

\* a.sum(0, out, 1.0, beta): out = beta * out + column sums of a
sum(a, out, beta) ==
  LET s == Matrix([r \in 1..1 |->
      [j \in 1..Cols(a) |->
        SumTo([i \in 1..Rows(a) |-> a[i][j]], Rows(a))]])
  IN  IF beta = 0 THEN s ELSE add(s, out, beta)

\* ActiFunc::run_fn
run_fn(type, m) ==
  Matrix([i \in 1..Rows(m) |->
      [j \in 1..Cols(m) |->
        IF type = "ACT_RELU" /\ m[i][j] <= 0 THEN 0 ELSE m[i][j]]])

\* ActiFunc::run_prime_fn(out, ret, deriv): ret = f'(out) (*) deriv
run_prime_fn(type, out, deriv) ==
  Matrix([i \in 1..Rows(out) |->
      [j \in 1..Cols(out) |->
        IF type = "ACT_RELU" /\ out[i][j] <= 0 THEN 0 ELSE deriv[i][j]]])

\* Tensor::dropout_mask: each element is 0 or the scale 1 / (1 - rate)
MaskScale(rate) == 1000 \div (1000 - rate)

----------------------------------------------------------------------------
(* What the driver and the parameter store supply *)

Timesteps == 0..(props.max_timestep - 1)

\* props::WeightInitializer / props::BiasInitializer.  "small" gives fixed
\* small values; weight_hh is sparse (one entry in the update-gate block, one
\* in the reset-gate block, the diagonal of the memory-cell block) so that
\* values stay small over a sweep.  "unit" and "large" leave the update gate
\* at zero, copy the previous hidden state into the reset gate and into the
\* recurrent candidate term, set bias_hh (and bias_h) to one in the
\* memory-cell columns, and give the first input feature the candidate weight
\* 1 ("unit") or 2^24 ("large", where float32 sums start to round).
WeightInitializers == {"small", "unit", "large"}

InitialWeight(name, r, c) ==
  Matrix([i \in 1..r |-> [j \in 1..c |->
    IF props.weight_initializer = "small"
    THEN CASE name = "weight_ih" -> ((i + j) % 3) - 1
           [] name = "weight_hh" ->
                IF j = 1 /\ i = r THEN 1
                ELSE IF 3 * j = 2 * c /\ i = 1 THEN -1
                ELSE IF 3 * j > 2 * c /\ 3 * (j - i) = 2 * c THEN -1
                ELSE 0
           [] name = "bias_h" -> (j % 2)
           [] name = "bias_ih" -> ((j + 1) % 3) - 1
           [] OTHER -> 1 - (j % 2)
    ELSE CASE name = "weight_ih" ->
                IF 3 * j > 2 * c /\ i = 1
                THEN (IF props.weight_initializer = "large"
                      THEN FloatMantissa ELSE 1)
                ELSE 0
           [] name = "weight_hh" ->
                IF 3 * j > c /\ (3 * (j - i) = c \/ 3 * (j - i) = 2 * c)
                THEN 1 ELSE 0
           [] name = "bias_ih" -> 0
           [] OTHER -> IF 3 * j > 2 * c THEN 1 ELSE 0]])

\* inputs (with the dropout sample drawn in the same call) and incoming
\* derivatives the driver may supply
Patterns == 0..1

Inputs(batch, p) ==
  Matrix([i \in 1..batch |->
      [j \in 1..FeatureSize |->
        ((i + j + p) % 3) - 1]])

Samples(batch, p) ==
  Matrix([i \in 1..batch |->
      [j \in 1..props.unit |->
        IF (i + j + p) % 2 = 0 THEN 0
        ELSE MaskScale(props.dropout_rate)]])

Derivatives(batch) ==
  {Matrix([i \in 1..batch |->
      [j \in 1..props.unit |->
        (i + j + p) % 2]]) : p \in Patterns}
  \cup {Tensor(batch, props.unit + 1, 1)}

\* what freshly allocated memory may hold
Uninitialized == {0, 1}

PerInstance(v) == [t \in Timesteps |-> v]

\* context.getInputDimensions()[0]
TensorDim(batch, channel, height, width) ==
  [batch |-> batch, channel |-> channel, height |-> height, width |-> width]

Call(op, timestep, arg, ok) ==
  [op |-> op, timestep |-> timestep, arg |-> arg, ok |-> ok]

----------------------------------------------------------------------------
(* GRUCellLayer::GRUCellLayer and the properties set before finalize *)

Props ==
  [disable_bias : BOOLEAN, integrate_bias : BOOLEAN, reset_after : BOOLEAN,
   dropout_rate : DropOutRates, max_timestep : 1..MaxTimestep,
   unit : {UnitSize}, weight_initializer : WeightInitializers,
   hidden_state_activation : ActivationTypes,
   recurrent_activation : ActivationTypes]

\* the cell as constructed, its properties set, one of the initializers chosen
Constructed(initializers) ==
  /\ props \in {p \in Props :
                  /\ p.hidden_state_activation = p.recurrent_activation
                  /\ p.weight_initializer \in initializers}
  /\ wt_idx = [p \in GRUCellParams |-> UNSET]
  /\ input_dim = TensorDim(0, 0, 0, 0)
  /\ weights = [p \in GRUCellParams \ {"hidden_state", "zrg", "dropout_mask"}
                  |-> <<>>]
  /\ grads = [p \in GRUCellParams \ {"hidden_state", "zrg", "dropout_mask"}
                |-> <<>>]
  /\ hidden_states = <<>>
  /\ d_hidden_states = <<>>
  /\ zrg = PerInstance(<<>>)
  /\ d_zrg = PerInstance(<<>>)
  /\ dropout_mask = PerInstance(<<>>)
  /\ input = PerInstance(<<>>)
  /\ output = PerInstance(<<>>)
  /\ incoming_derivative = PerInstance(<<>>)
  /\ outgoing_derivative = PerInstance(<<>>)
  /\ pc = "created"
  /\ last = Call("construct", 0, 0, TRUE)

Init == Constructed({"small"})

----------------------------------------------------------------------------
(* GRUCellLayer::finalize *)

\* the input-shape test of finalize: TRUE when it throws
finalizeRejects(num_inputs, channel, height) ==
  \/ num_inputs # 1
  \/ (channel # 1 /\ height # 1)

finalizeIndicesBiasSwapped ==
  LET bias == ~props.disable_bias
      integ == props.integrate_bias
  IN  [p \in GRUCellParams |->
         CASE p = "weight_ih" -> 0
           [] p = "weight_hh" -> 1
           [] p = "bias_h" -> IF bias /\ ~integ THEN 2 ELSE UNSET
           [] p = "bias_ih" -> IF bias /\ integ THEN 2 ELSE UNSET
           [] p = "bias_hh" -> IF bias /\ integ THEN 3 ELSE UNSET
           [] p = "hidden_state" -> 0
           [] p = "zrg" -> 1
           [] OTHER -> IF props.dropout_rate > epsilon THEN 2 ELSE UNSET]

\* indices handed out by requestWeight / requestTensor, in request order
finalizeIndices ==
  LET bias == ~props.disable_bias
      integ == props.integrate_bias
  IN  [p \in GRUCellParams |->
         CASE p = "weight_ih" -> 0
           [] p = "weight_hh" -> 1
           [] p = "bias_h" -> IF bias /\ integ THEN 2 ELSE UNSET
           [] p = "bias_ih" -> IF bias /\ ~integ THEN 2 ELSE UNSET
           [] p = "bias_hh" -> IF bias /\ ~integ THEN 3 ELSE UNSET
           [] p = "hidden_state" -> 0
           [] p = "zrg" -> 1
           [] OTHER -> IF props.dropout_rate > epsilon THEN 2 ELSE UNSET]

\* the weights finalize requests, with their dimensions
finalizeWeightDims(feature_size) ==
  LET unit == props.unit
      bias == ~props.disable_bias
      integ == props.integrate_bias
  IN  [weight_ih |-> <<feature_size, NUM_GATE * unit>>,
       weight_hh |-> <<unit, NUM_GATE * unit>>,
       bias_h |-> IF bias /\ integ THEN <<1, NUM_GATE * unit>> ELSE <<0, 0>>,
       bias_ih |-> IF bias /\ ~integ THEN <<1, NUM_GATE * unit>> ELSE <<0, 0>>,
       bias_hh |-> IF bias /\ ~integ THEN <<1, NUM_GATE * unit>> ELSE <<0, 0>>]

Finalize(num_inputs, batch, channel, height, g) ==
  /\ pc = "created"
  /\ input_dim' = IF num_inputs # 1 THEN input_dim
                ELSE TensorDim(batch, channel, height, FeatureSize)
  /\ IF finalizeRejects(num_inputs, channel, height)
     THEN /\ pc' = "error"
          /\ last' = Call("finalize", 0, num_inputs, FALSE)
          /\ UNCHANGED <<props, wt_idx, weights, grads, hidden_states,
                         d_hidden_states, zrg, d_zrg, dropout_mask, input,
                         output, incoming_derivative, outgoing_derivative>>
     ELSE LET unit == props.unit
              batch_size == batch
              wd == finalizeWeightDims(FeatureSize)
          IN
          /\ wt_idx' = finalizeIndices
          /\ weights' = [p \in DOMAIN weights |->
                           InitialWeight(p, wd[p][1], wd[p][2])]
          /\ grads' = [p \in DOMAIN grads |-> Tensor(wd[p][1], wd[p][2], g)]
          /\ hidden_states' =
               Tensor(props.max_timestep * batch_size, unit, g)
          /\ d_hidden_states' =
               Tensor(props.max_timestep * batch_size, unit, g)
          /\ zrg' = PerInstance(Tensor(batch_size, NUM_GATE * unit, g))
          /\ d_zrg' = PerInstance(Tensor(batch_size, NUM_GATE * unit, g))
          /\ dropout_mask' =
               IF props.dropout_rate > epsilon
               THEN PerInstance(Tensor(batch_size, unit, g))
               ELSE dropout_mask
          /\ output' = PerInstance(Tensor(batch_size, unit, g))
          /\ outgoing_derivative' =
               PerInstance(Tensor(batch_size, FeatureSize, g))
          \* an input with several channels or rows is outside the numeric
          \* model: the driver goes no further with it
          /\ pc' = IF channel = 1 /\ height = 1
                   THEN "ready" ELSE "accepted"
          /\ last' = Call("finalize", 0, num_inputs, TRUE)
          /\ UNCHANGED <<props, input, incoming_derivative>>

----------------------------------------------------------------------------
(* GRUCellLayer::setBatch, called for every instance of the unrolled cell *)

\* RunLayerContext::updateTensor: the tensor with its batch dimension set
updateTensor(m, batch, g) == Tensor(batch, Cols(m), g)

setBatchHiddenStateOneSlot(m, batch, g) ==
  updateTensor(m, batch, g)

setBatchHiddenState(m, batch, g) ==
  updateTensor(m, props.max_timestep * batch, g)

SetBatch(batch, g) ==
  /\ pc = "ready"
  /\ hidden_states' = setBatchHiddenState(hidden_states, batch, g)
  /\ d_hidden_states' = setBatchHiddenState(d_hidden_states, batch, g)
  /\ zrg' = [t \in Timesteps |-> updateTensor(zrg[t], batch, g)]
  /\ d_zrg' = [t \in Timesteps |-> updateTensor(d_zrg[t], batch, g)]
  /\ dropout_mask' =
       IF props.dropout_rate > epsilon
       THEN [t \in Timesteps |-> updateTensor(dropout_mask[t], batch, g)]
       ELSE dropout_mask
  \* the context resizes the instance's own input and output tensors
  /\ output' = [t \in Timesteps |-> updateTensor(output[t], batch, g)]
  /\ outgoing_derivative' =
       [t \in Timesteps |-> updateTensor(outgoing_derivative[t], batch, g)]
  /\ input_dim' = [input_dim EXCEPT !.batch = batch]
  /\ last' = Call("setBatch", 0, batch, TRUE)
  /\ UNCHANGED <<props, wt_idx, weights, grads, input, incoming_derivative,
                 pc>>

----------------------------------------------------------------------------
(* GRUCellLayer::forwarding *)

BiasEnabled == ~props.disable_bias
SeparateBias == ~props.disable_bias /\ ~props.integrate_bias

\* the previous hidden state: zero for timestep 0, else a view of slot
\* timestep - 1 of the ring
prevHiddenState(ring, timestep, batch_size) ==
  IF timestep = 0
  THEN Tensor(batch_size, props.unit, 0)
  ELSE getBatchSlice(ring, timestep - 1, batch_size)

hiddenStateSlotNext(timestep) == (timestep + 1) % props.max_timestep

\* the slot of the ring the call at `timestep` works on
hiddenStateSlot(timestep) == timestep

fwdInputGatesAccumulate(x, zrg_t) ==
  dot(x, weights.weight_ih, zrg_t, FALSE, FALSE, 1)

\* zrg after input.dot(weight_ih, zrg)
fwdInputGates(x, zrg_t) ==
  dot(x, weights.weight_ih, zrg_t, FALSE, FALSE, 0)

fwdUpdateResetGateBiasTwice(zrg_t, prev_hidden_state) ==
  LET unit == props.unit
      weight_hh_update_reset_gate ==
        getSharedDataTensor(weights.weight_hh, 2 * unit, 0)
      g0 == getSharedDataTensor(zrg_t, 2 * unit, 0)
      g1 == add(g0, dot(prev_hidden_state, weight_hh_update_reset_gate,
                        <<>>, FALSE, FALSE, 0), 1)
      g2 == IF ~BiasEnabled THEN g1
            ELSE IF props.integrate_bias
            THEN add(g1, getSharedDataTensor(weights.bias_h, 2 * unit, 0), 1)
            ELSE add(add(g1, getSharedDataTensor(weights.bias_hh,
                                                 2 * unit, 0), 1),
                     getSharedDataTensor(weights.bias_hh, 2 * unit, 0), 1)
  IN  putSharedData(zrg_t, 0, run_fn(props.recurrent_activation, g2))

\* zrg after the [Z|R] columns got the recurrent term, the bias and the
\* recurrent activation
fwdUpdateResetGate(zrg_t, prev_hidden_state) ==
  LET unit == props.unit
      weight_hh_update_reset_gate ==
        getSharedDataTensor(weights.weight_hh, 2 * unit, 0)
      g0 == getSharedDataTensor(zrg_t, 2 * unit, 0)
      g1 == add(g0, dot(prev_hidden_state, weight_hh_update_reset_gate,
                        <<>>, FALSE, FALSE, 0), 1)
      g2 == IF ~BiasEnabled THEN g1
            ELSE IF props.integrate_bias
            THEN add(g1, getSharedDataTensor(weights.bias_h, 2 * unit, 0), 1)
            ELSE add(add(g1, getSharedDataTensor(weights.bias_ih,
                                                 2 * unit, 0), 1),
                     getSharedDataTensor(weights.bias_hh, 2 * unit, 0), 1)
  IN  putSharedData(zrg_t, 0, run_fn(props.recurrent_activation, g2))

fwdMemoryCellPreOverwrite(zrg_t, prev_hidden_state, reset_after) ==
  LET unit == props.unit
      reset_gate == getSharedDataTensor(zrg_t, unit, unit)
      memory_cell == getSharedDataTensor(zrg_t, unit, 2 * unit)
      weight_hh_memory_cell ==
        getSharedDataTensor(weights.weight_hh, unit, 2 * unit)
      bias_hh_memory_cell ==
        getSharedDataTensor(weights.bias_hh, unit, 2 * unit)
      m1 == IF reset_after
            THEN LET t0 == dot(prev_hidden_state, weight_hh_memory_cell,
                               <<>>, FALSE, FALSE, 0)
                     t1 == IF SeparateBias
                           THEN add(t0, bias_hh_memory_cell, 1) ELSE t0
                     t2 == multiply_strided(t1, reset_gate, t1, 0)
                 IN  add(memory_cell, t2, 1)
            ELSE LET t0 == multiply_strided(reset_gate, prev_hidden_state,
                                            <<>>, 0)
                     c0 == dot(t0, weight_hh_memory_cell, memory_cell,
                               FALSE, FALSE, 0)
                 IN  IF SeparateBias
                     THEN add(c0, bias_hh_memory_cell, 1) ELSE c0
  IN  IF ~BiasEnabled THEN m1
      ELSE IF props.integrate_bias
      THEN add(m1, getSharedDataTensor(weights.bias_h, unit, 2 * unit), 1)
      ELSE add(m1, getSharedDataTensor(weights.bias_ih, unit, 2 * unit), 1)

\* the candidate pre-activation: the memory_cell columns before acti_func
fwdMemoryCellPre(zrg_t, prev_hidden_state, reset_after) ==
  LET unit == props.unit
      reset_gate == getSharedDataTensor(zrg_t, unit, unit)
      memory_cell == getSharedDataTensor(zrg_t, unit, 2 * unit)
      weight_hh_memory_cell ==
        getSharedDataTensor(weights.weight_hh, unit, 2 * unit)
      bias_hh_memory_cell ==
        getSharedDataTensor(weights.bias_hh, unit, 2 * unit)
      m1 == IF reset_after
            THEN LET t0 == dot(prev_hidden_state, weight_hh_memory_cell,
                               <<>>, FALSE, FALSE, 0)
                     t1 == IF SeparateBias
                           THEN add(t0, bias_hh_memory_cell, 1) ELSE t0
                     t2 == multiply_strided(t1, reset_gate, t1, 0)
                 IN  add(memory_cell, t2, 1)
            ELSE LET t0 == multiply_strided(reset_gate, prev_hidden_state,
                                            <<>>, 0)
                     c0 == dot(t0, weight_hh_memory_cell, memory_cell,
                               FALSE, FALSE, 1)
                 IN  IF SeparateBias
                     THEN add(c0, bias_hh_memory_cell, 1) ELSE c0
  IN  IF ~BiasEnabled THEN m1
      ELSE IF props.integrate_bias
      THEN add(m1, getSharedDataTensor(weights.bias_h, unit, 2 * unit), 1)
      ELSE add(m1, getSharedDataTensor(weights.bias_ih, unit, 2 * unit), 1)

\* zrg after the memory_cell columns were composed and activated
fwdMemoryCell(zrg_t, prev_hidden_state, reset_after) ==
  putSharedData(zrg_t, 2 * props.unit,
                run_fn(props.hidden_state_activation,
                       fwdMemoryCellPre(zrg_t, prev_hidden_state,
                                        reset_after)))

\* the slot's new content: h = Z (*) h_prev + (1 - Z) (*) G
fwdHiddenState(zrg_t, prev_hidden_state, hidden_state) ==
  LET unit == props.unit
      update_gate == getSharedDataTensor(zrg_t, unit, 0)
      memory_cell == getSharedDataTensor(zrg_t, unit, 2 * unit)
      h0 == multiply_strided(update_gate, prev_hidden_state, hidden_state, 0)
      temp == add_scalar(multiply_scalar(update_gate, -1), 1)
  IN  add(h0, multiply_strided(memory_cell, temp, <<>>, 0), 1)

\* TRUE when forwarding samples and applies a dropout mask
fwdDropout(training) == props.dropout_rate > epsilon /\ training

\* what the call leaves: the ring with h2 in its slot, the gates, the mask
\* and the output
forwardingRecord(ring, z3, mask_t, timestep, training, sample, h2) ==
  [hidden_states |-> putBatchSlice(ring, hiddenStateSlot(timestep), h2),
   zrg |-> z3,
   dropout_mask |-> IF fwdDropout(training) THEN sample ELSE mask_t,
   output |-> h2]

\* the whole call: the new ring, scratch, mask and output of the instance.
\* The steps run from the innermost binding outwards: the views, z1 (input
\* term), z2 ([Z|R]), z3 (candidate), h1 (new state), h2 (after dropout)
forwardingResultWith(ring, zrg_t, mask_t, x, timestep, training, sample, reset_after) ==
  TheOne({TheOne({TheOne({TheOne({TheOne({
    forwardingRecord(ring, z3, mask_t, timestep, training, sample, h2) :
      h2 \in {IF fwdDropout(training) THEN multiply(h1, sample) ELSE h1}}) :
      h1 \in {fwdHiddenState(z3, prev_hidden_state, hidden_state)}}) :
      z3 \in {fwdMemoryCell(z2, prev_hidden_state, reset_after)}}) :
      z2 \in {fwdUpdateResetGate(z1, prev_hidden_state)}}) :
      z1 \in {fwdInputGates(x, zrg_t)},
      prev_hidden_state \in {prevHiddenState(ring, timestep, Rows(x))},
      hidden_state \in {getBatchSlice(ring, hiddenStateSlot(timestep),
                                      Rows(x))}})

forwardingResult(ring, zrg_t, mask_t, x, timestep, training, sample) ==
  forwardingResultWith(ring, zrg_t, mask_t, x, timestep, training, sample,
                       props.reset_after)

NextForward ==
  IF pc = "ready" THEN 0 ELSE last.timestep + 1

\* the call of instance `timestep`, leaving the driver at `after`
forwardingCall(timestep, x, training, sample, after) ==
  /\ \E r \in {forwardingResult(hidden_states, zrg[timestep],
                               dropout_mask[timestep], x, timestep,
                               training, sample)} :
         /\ hidden_states' = r.hidden_states
         /\ zrg' = [zrg EXCEPT ![timestep] = r.zrg]
         /\ dropout_mask' = [dropout_mask EXCEPT ![timestep] = r.dropout_mask]
         /\ output' = [output EXCEPT ![timestep] = r.output]
         /\ input' = [input EXCEPT ![timestep] = x]
         /\ pc' = after
         /\ last' = Call("forwarding", timestep,
                         IF training THEN 1 ELSE 0, TRUE)
  /\ UNCHANGED <<props, wt_idx, input_dim, weights, grads, d_hidden_states,
                 d_zrg, incoming_derivative, outgoing_derivative>>

\* the forward pass of a training iteration: instances 0, 1, ... in turn
Forwarding(x, training, sample) ==
  /\ pc \in {"ready", "forward"}
  \* one pass runs every instance with the same training flag
  /\ pc = "forward" => training = (last.arg = 1)
  /\ \E timestep \in {NextForward} :
       forwardingCall(timestep, x, training, sample,
                      IF timestep + 1 = props.max_timestep
                      THEN "backward" ELSE "forward")

\* one forward call of any instance on the ring as allocated: the call as a
\* function of its input, the previous slot, the weights and the flags
ForwardingAt(timestep, x, training, sample) ==
  /\ pc = "ready"
  /\ forwardingCall(timestep, x, training, sample, "called")

----------------------------------------------------------------------------
(* GRUCellLayer::calcGradient *)

cgZeroesAtZero(timestep) == timestep = 0

\* the call that zeroes the accumulators
cgZeroes(timestep) == timestep + 1 = props.max_timestep

\* the accumulators after d_*.setZero()
cgZeroGrads(gr) ==
  [p \in DOMAIN gr |->
     IF \/ p \in {"weight_ih", "weight_hh"}
        \/ (p = "bias_h" /\ BiasEnabled /\ props.integrate_bias)
        \/ (p \in {"bias_ih", "bias_hh"} /\ SeparateBias)
     THEN setZero(gr[p]) ELSE gr[p]]

\* Tensor::add_i of the incoming derivative: refused on a shape mismatch
cgShapeMatches(incoming, batch_size) ==
  Rows(incoming) = batch_size /\ Cols(incoming) = props.unit

\* d_hidden_states.multiply_i(dropout_mask): the mask meets every slot
cgDropout(dring, mask_t) ==
  IF props.dropout_rate > epsilon
  THEN Matrix([i \in 1..Rows(dring) |->
      [j \in 1..Cols(dring) |->
        FMul(dring[i][j], mask_t[((i - 1) % Rows(mask_t)) + 1][j])]])
  ELSE dring

\* the gradient ring after the incoming derivative was taken into slot
\* `timestep` (and after the dropout mask)
cgIncoming(dring, incoming, mask_t, timestep) ==
  LET d_hidden_state == getBatchSlice(dring, timestep, Rows(incoming))
  IN  cgDropout(putBatchSlice(dring, timestep,
                              add(d_hidden_state, incoming, 1)), mask_t)

\* the view d_prev_hidden_state: slot timestep - 1, or a local zero tensor
cgPrevGradient(dring, timestep, batch_size) ==
  IF timestep = 0
  THEN Tensor(batch_size, props.unit, 0)
  ELSE getBatchSlice(dring, timestep - 1, batch_size)

cgDirectAccumulate(d_hidden_state, update_gate, d_prev_hidden_state) ==
  multiply_strided(d_hidden_state, update_gate, d_prev_hidden_state, 1)

\* d_prev_hidden_state = d1
cgDirect(d_hidden_state, update_gate, d_prev_hidden_state) ==
  multiply_strided(d_hidden_state, update_gate, d_prev_hidden_state, 0)

\* d_zrg with d7 in its update-gate columns and d8 in its memory-cell columns
cgGates(dz, zrg_t, d_hidden_state, prev_hidden_state) ==
  LET unit == props.unit
      update_gate == getSharedDataTensor(zrg_t, unit, 0)
      memory_cell == getSharedDataTensor(zrg_t, unit, 2 * unit)
      d2 == multiply_strided(d_hidden_state, prev_hidden_state,
                             getSharedDataTensor(dz, unit, 0), 0)
      d5 == add(d2, multiply_strided(d_hidden_state, memory_cell, <<>>, 0),
                -1)
      m0 == add_scalar(multiply_scalar(update_gate, -1), 1)
      d6 == multiply_strided(m0, d_hidden_state, m0, 0)
      d7 == run_prime_fn(props.recurrent_activation, update_gate, d5)
      d8 == run_prime_fn(props.hidden_state_activation, memory_cell, d6)
  IN  putSharedData(putSharedData(dz, 0, d7), 2 * unit, d8)

\* the candidate path: d_reset_gate = d15, the memory-cell parts of
\* d_bias_hh and d_weight_hh, and d_prev_hidden_state = d1 + d14
cgCandidate(gr, dz, zrg_t, prev_hidden_state, d_prev_hidden_state) ==
  LET unit == props.unit
      reset_gate == getSharedDataTensor(zrg_t, unit, unit)
      d_memory_cell == getSharedDataTensor(dz, unit, 2 * unit)
      weight_hh_memory_cell ==
        getSharedDataTensor(weights.weight_hh, unit, 2 * unit)
      d_weight_hh_memory_cell ==
        getSharedDataTensor(gr.weight_hh, unit, 2 * unit)
      d_bias_hh_memory_cell ==
        getSharedDataTensor(gr.bias_hh, unit, 2 * unit)
  IN  IF props.reset_after
      THEN LET t0 == dot(prev_hidden_state, weight_hh_memory_cell, <<>>,
                         FALSE, FALSE, 0)
               t1 == IF SeparateBias
                     THEN add(t0, getSharedDataTensor(weights.bias_hh, unit,
                                                      2 * unit), 1)
                     ELSE t0
               d15 == multiply_strided(d_memory_cell, t1,
                                       getSharedDataTensor(dz, unit, unit), 0)
               temp == multiply_strided(d_memory_cell, reset_gate, t1, 0)
           IN  [d_zrg |-> putSharedData(dz, unit, d15),
                d_bias_hh |->
                  IF SeparateBias
                  THEN putSharedData(gr.bias_hh, 2 * unit,
                                     sum(temp, d_bias_hh_memory_cell, 1))
                  ELSE gr.bias_hh,
                d_prev_hidden_state |->
                  dot(temp, weight_hh_memory_cell, d_prev_hidden_state,
                      FALSE, TRUE, 1),
                d_weight_hh |->
                  putSharedData(gr.weight_hh, 2 * unit,
                                add(d_weight_hh_memory_cell,
                                    dot(prev_hidden_state, temp, <<>>,
                                        TRUE, FALSE, 0), 1))]
      ELSE LET t0 == dot(d_memory_cell, weight_hh_memory_cell, <<>>,
                         FALSE, TRUE, 0)
               d15 == multiply_strided(t0, prev_hidden_state,
                                       getSharedDataTensor(dz, unit, unit), 0)
               temp == multiply_strided(reset_gate, prev_hidden_state, t0, 0)
           IN  [d_zrg |-> putSharedData(dz, unit, d15),
                d_bias_hh |->
                  IF SeparateBias
                  THEN putSharedData(gr.bias_hh, 2 * unit,
                                     sum(d_memory_cell,
                                         d_bias_hh_memory_cell, 1))
                  ELSE gr.bias_hh,
                d_prev_hidden_state |->
                  multiply_strided(t0, reset_gate, d_prev_hidden_state, 1),
                d_weight_hh |->
                  putSharedData(gr.weight_hh, 2 * unit,
                                dot(temp, d_memory_cell,
                                    d_weight_hh_memory_cell,
                                    TRUE, FALSE, 1))]

\* d_reset_gate = d16
cgResetGate(dz, zrg_t) ==
  LET unit == props.unit
  IN  putSharedData(dz, unit,
                    run_prime_fn(props.recurrent_activation,
                                 getSharedDataTensor(zrg_t, unit, unit),
                                 getSharedDataTensor(dz, unit, unit)))

\* the bias gradients after the column sums of d_zrg were added
cgBias(gr, dz) ==
  LET unit == props.unit
  IN  IF ~BiasEnabled THEN gr
      ELSE IF props.integrate_bias
      THEN [gr EXCEPT !.bias_h = sum(dz, gr.bias_h, 1)]
      ELSE [gr EXCEPT
              !.bias_ih = sum(dz, gr.bias_ih, 1),
              !.bias_hh =
                putSharedData(
                  gr.bias_hh, 0,
                  add(getSharedDataTensor(gr.bias_hh, 2 * unit, 0),
                      getSharedDataTensor(sum(dz, <<>>, 0), 2 * unit, 0),
                      1))]

cgWeightsOverwrite(gr, dz, x, prev_hidden_state) ==
  LET unit == props.unit
      d_update_reset_gate == getSharedDataTensor(dz, 2 * unit, 0)
  IN  [gr EXCEPT
         !.weight_hh =
           putSharedData(gr.weight_hh, 0,
                         add(getSharedDataTensor(gr.weight_hh, 2 * unit, 0),
                             dot(prev_hidden_state, d_update_reset_gate,
                                 <<>>, TRUE, FALSE, 0), 1)),
         !.weight_ih = dot(x, dz, gr.weight_ih, TRUE, FALSE, 0)]

\* d_weight_hh[:, :2U], d_weight_ih and d_prev_hidden_state after the tail
cgWeights(gr, dz, x, prev_hidden_state) ==
  LET unit == props.unit
      d_update_reset_gate == getSharedDataTensor(dz, 2 * unit, 0)
  IN  [gr EXCEPT
         !.weight_hh =
           putSharedData(gr.weight_hh, 0,
                         add(getSharedDataTensor(gr.weight_hh, 2 * unit, 0),
                             dot(prev_hidden_state, d_update_reset_gate,
                                 <<>>, TRUE, FALSE, 0), 1)),
         !.weight_ih = dot(x, dz, gr.weight_ih, TRUE, FALSE, 1)]

cgRecurrent(dz, d_prev_hidden_state) ==
  LET unit == props.unit
  IN  dot(getSharedDataTensor(dz, 2 * unit, 0),
          getSharedDataTensor(weights.weight_hh, 2 * unit, 0),
          d_prev_hidden_state, FALSE, TRUE, 1)

\* the end of the call: the bias sums, the weight gradients and the [Z|R]
\* recurrent term, from the candidate path's results c and the final gate
\* gradients dz2
cgTail(gr, dring, c, dz2, x, prev_hidden_state, timestep) ==
  TheOne({
    [grads |-> cgWeights(gr2, dz2, x, prev_hidden_state),
     d_hidden_states |->
       IF timestep = 0 THEN dring
       ELSE putBatchSlice(dring, timestep - 1,
                          cgRecurrent(dz2, c.d_prev_hidden_state)),
     d_zrg |-> dz2,
     ok |-> TRUE] :
    gr2 \in {cgBias([gr EXCEPT !.bias_hh = c.d_bias_hh,
                               !.weight_hh = c.d_weight_hh], dz2)}})

\* the part of the call after the incoming derivative was accepted.  The
\* steps run from the innermost binding outwards: the views, d1 and dz1
\* (d7, d8), c (candidate path), dz2 (d16), then the tail
cgCompute(gr, dring, dz, zrg_t, x, ring, timestep) ==
  TheOne({TheOne({TheOne({TheOne({
    cgTail(gr, dring, c, dz2, x, prev_hidden_state, timestep) :
      dz2 \in {cgResetGate(c.d_zrg, zrg_t)}}) :
      c \in {cgCandidate(gr, dz1, zrg_t, prev_hidden_state, d1)}}) :
      d1 \in {cgDirect(d_hidden_state,
                       getSharedDataTensor(zrg_t, props.unit, 0),
                       cgPrevGradient(dring, timestep, Rows(x)))},
      dz1 \in {cgGates(dz, zrg_t, d_hidden_state, prev_hidden_state)}}) :
      prev_hidden_state \in {prevHiddenState(ring, timestep, Rows(x))},
      d_hidden_state \in {getBatchSlice(dring, timestep, Rows(x))}})

\* the accumulators and the ring after the zeroing of lines 375-387
cgZeroed(gr, dring, batch_size, timestep) ==
  IF cgZeroes(timestep)
  THEN [grads |-> cgZeroGrads(gr),
        d_hidden_states |->
          putBatchSlice(dring, timestep, Tensor(batch_size, props.unit, 0))]
  ELSE [grads |-> gr, d_hidden_states |-> dring]

calcGradientResultLateCheck(gr, dring, dz, zrg_t, mask_t, x, ring, incoming, timestep) ==
  TheOne({TheOne({TheOne({
    [res EXCEPT !.ok = cgShapeMatches(incoming, Rows(x))] :
      res \in {cgCompute(z.grads, r1, dz, zrg_t, x, ring, timestep)}}) :
      r1 \in {cgIncoming(z.d_hidden_states, incoming, mask_t, timestep)}}) :
      z \in {cgZeroed(gr, dring, Rows(x), timestep)}})

\* the whole call
calcGradientResult(gr, dring, dz, zrg_t, mask_t, x, ring, incoming, timestep) ==
  TheOne({
    IF cgShapeMatches(incoming, Rows(x))
    THEN TheOne({cgCompute(z.grads, r1, dz, zrg_t, x, ring, timestep) :
           r1 \in {cgIncoming(z.d_hidden_states, incoming, mask_t,
                              timestep)}})
    ELSE [grads |-> z.grads, d_hidden_states |-> z.d_hidden_states,
          d_zrg |-> dz, ok |-> FALSE] :
      z \in {cgZeroed(gr, dring, Rows(x), timestep)}})

NextBackward ==
  IF last.op = "forwarding" THEN props.max_timestep - 1
  ELSE last.timestep - 1

CalcGradient(incoming) ==
  /\ pc = "backward"
  /\ \E timestep \in {NextBackward} :
     \E r \in {calcGradientResult(grads, d_hidden_states, d_zrg[timestep],
                                  zrg[timestep], dropout_mask[timestep],
                                  input[timestep], hidden_states, incoming,
                                  timestep)} :
         /\ grads' = r.grads
         /\ d_hidden_states' = r.d_hidden_states
         /\ d_zrg' = [d_zrg EXCEPT ![timestep] = r.d_zrg]
         /\ incoming_derivative' =
              [incoming_derivative EXCEPT ![timestep] = incoming]
         /\ pc' = IF r.ok THEN "derivative" ELSE "error"
         /\ last' = Call("calcGradient", timestep, 0, r.ok)
  /\ UNCHANGED <<props, wt_idx, input_dim, weights, hidden_states, zrg,
                 dropout_mask, input, output, outgoing_derivative>>

----------------------------------------------------------------------------
(* GRUCellLayer::calcDerivative *)

calcDerivativeResult(dz, out) ==
  dot(dz, weights.weight_ih, out, FALSE, TRUE, 0)

CalcDerivative ==
  /\ pc = "derivative"
  /\ \E timestep \in {last.timestep} :
       /\ outgoing_derivative' =
            [outgoing_derivative EXCEPT
               ![timestep] = calcDerivativeResult(d_zrg[timestep], @)]
       /\ pc' = IF timestep = 0 THEN "done" ELSE "backward"
       /\ last' = Call("calcDerivative", timestep, 0, TRUE)
  /\ UNCHANGED <<props, wt_idx, input_dim, weights, grads, hidden_states,
                 d_hidden_states, zrg, d_zrg, dropout_mask, input, output,
                 incoming_derivative>>

----------------------------------------------------------------------------
(* The entries of wt_idx each operation hands to the context *)

\* the bias entries read under the flags: the ternaries of lines 206-214
\* and 345-356
biasIndices ==
  IF ~props.disable_bias /\ props.integrate_bias THEN {"bias_h"}
  ELSE IF ~props.disable_bias /\ ~props.integrate_bias
  THEN {"bias_ih", "bias_hh"}
  ELSE {}

forwardingIndices(training) ==
  {"weight_ih", "weight_hh", "hidden_state", "zrg"} \cup biasIndices
    \cup (IF props.dropout_rate > epsilon /\ training
          THEN {"dropout_mask"} ELSE {})

calcDerivativeIndices == {"weight_ih", "zrg"}

calcGradientIndices ==
  {"weight_ih", "weight_hh", "hidden_state", "zrg"} \cup biasIndices
    \cup (IF props.dropout_rate > epsilon THEN {"dropout_mask"} ELSE {})

setBatchIndices ==
  {"hidden_state", "zrg"}
    \cup (IF props.dropout_rate > epsilon THEN {"dropout_mask"} ELSE {})

----------------------------------------------------------------------------
(* The driver: finalize, batch changes, one forward pass in increasing     *)
(* timestep order, then the reverse pass                                   *)

CurrentBatch == Rows(zrg[0])

Next ==
  \/ \E n \in 1..2, b \in 1..MaxBatch, c \in 1..2, h \in 1..2,
        g \in Uninitialized :
       Finalize(n, b, c, h, g)
  \/ \E b \in 1..MaxBatch, g \in Uninitialized : SetBatch(b, g)
  \/ \E p \in Patterns, training \in BOOLEAN :
       Forwarding(Inputs(CurrentBatch, p), training, Samples(CurrentBatch, p))
  \/ \E incoming \in Derivatives(CurrentBatch) : CalcGradient(incoming)
  \/ CalcDerivative

Spec == Init /\ [][Next]_vars

\* a cell built with a preset initializer, finalized, and called once at any
\* timestep
InitOneCall == Constructed({"unit", "large"})

NextOneCall ==
  \/ \E n \in 1..2, b \in 1..MaxBatch, c \in 1..2, h \in 1..2,
        g \in Uninitialized :
       Finalize(n, b, c, h, g)
  \/ \E t \in Timesteps, p \in Patterns, training \in BOOLEAN :
       ForwardingAt(t, Inputs(CurrentBatch, p), training,
                    Samples(CurrentBatch, p))

SpecOneCall == InitOneCall /\ [][NextOneCall]_vars

----------------------------------------------------------------------------
(* Reference quantities of section 4.2, read off the state after a backward *)
(* call of instance t: its gates zrg[t], its gate gradients d_zrg[t], its   *)
(* input and the ring                                                      *)

Slot(ring, t) == getBatchSlice(ring, t, CurrentBatch)

PrevHidden(t) ==
  IF t = 0 THEN Tensor(CurrentBatch, props.unit, 0)
  ELSE Slot(hidden_states, t - 1)

GateZ(t) == getSharedDataTensor(zrg[t], props.unit, 0)
GateR(t) == getSharedDataTensor(zrg[t], props.unit, props.unit)
\* steps 5, 7, 8: what a call of instance t contributes to each accumulator
\* when it leaves the gate gradients dz
ContributionOf(t, dz) ==
  LET unit == props.unit
      d_zr == getSharedDataTensor(dz, 2 * unit, 0)
      d_g == getSharedDataTensor(dz, unit, 2 * unit)
      d_gr == multiply(d_g, GateR(t))
      w_g == IF props.reset_after
             THEN dot(PrevHidden(t), d_gr, <<>>, TRUE, FALSE, 0)
             ELSE dot(multiply(GateR(t), PrevHidden(t)), d_g, <<>>,
                      TRUE, FALSE, 0)
      w_zr == dot(PrevHidden(t), d_zr, <<>>, TRUE, FALSE, 0)
      b_zr == sum(d_zr, <<>>, 0)
      b_g == IF props.reset_after THEN sum(d_gr, <<>>, 0)
             ELSE sum(d_g, <<>>, 0)
  IN  [weight_ih |-> dot(input[t], dz, <<>>, TRUE, FALSE, 0),
       weight_hh |-> Matrix([i \in 1..unit |->
           [j \in 1..(NUM_GATE * unit) |->
             IF j <= 2 * unit THEN w_zr[i][j]
             ELSE w_g[i][j - 2 * unit]]]),
       bias_h |-> IF BiasEnabled /\ props.integrate_bias
                  THEN sum(dz, <<>>, 0) ELSE <<>>,
       bias_ih |-> IF SeparateBias THEN sum(dz, <<>>, 0) ELSE <<>>,
       bias_hh |-> IF SeparateBias
                   THEN Matrix([i \in 1..1 |->
                       [j \in 1..(NUM_GATE * unit) |->
                         IF j <= 2 * unit THEN b_zr[1][j]
                         ELSE b_g[1][j - 2 * unit]]])
                   ELSE <<>>]

Contribution(t) == ContributionOf(t, d_zrg[t])

Accumulated(acc, c) == IF c = <<>> THEN acc ELSE add(acc, c, 1)

IsZero(m) == m = setZero(m)

\* steps 3, 5, 10: the gradient a call of instance t hands to the previous
\* timestep when it leaves the ring dring and the gate gradients dz
PrevGradientOf(t, dring, dz) ==
  LET unit == props.unit
      d_zr == getSharedDataTensor(dz, 2 * unit, 0)
      d_g == getSharedDataTensor(dz, unit, 2 * unit)
      w_g == getSharedDataTensor(weights.weight_hh, unit, 2 * unit)
      w_zr == getSharedDataTensor(weights.weight_hh, 2 * unit, 0)
      direct == multiply(Slot(dring, t), GateZ(t))
      candidate ==
        IF props.reset_after
        THEN dot(multiply(d_g, GateR(t)), w_g, <<>>, FALSE, TRUE, 0)
        ELSE multiply(dot(d_g, w_g, <<>>, FALSE, TRUE, 0), GateR(t))
      recurrent == dot(d_zr, w_zr, <<>>, FALSE, TRUE, 0)
  IN  add(add(direct, candidate, 1), recurrent, 1)

PrevGradient(t) == PrevGradientOf(t, d_hidden_states, d_zrg[t])

BackwardDone(t) ==
  last.op = "calcGradient" /\ last.ok /\ last.timestep = t

\* a step that is a successful backward call
BackwardStep ==
  pc = "backward" /\ last'.op = "calcGradient" /\ last'.ok

----------------------------------------------------------------------------
(* C1: in the reverse sweep the accumulators are zeroed in exactly the call *)
(* with timestep + 1 = max_timestep, before that call adds anything: after  *)
(* that call every accumulator holds the call's contribution alone,         *)
(* whatever it held before; after every lower call it holds what it held    *)
(* before plus the call's contribution.                                     *)

C1_Body ==
  \A t \in Timesteps :
    BackwardStep /\ last'.timestep = t =>
      \A c \in {ContributionOf(t, d_zrg'[t])} :
        \A p \in DOMAIN grads :
          grads'[p] = IF t + 1 = props.max_timestep
                      THEN c[p] ELSE Accumulated(grads[p], c[p])

C1_ZeroedOnceThenAccumulated == [][C1_Body]_vars

\* a lower call has added to accumulators that held an earlier contribution
C1_Witness ==
  /\ last.op = "calcGradient" /\ last.ok
  /\ last.timestep + 1 < props.max_timestep
  /\ ~IsZero(Contribution(last.timestep).weight_ih)
  /\ ~IsZero(Contribution(last.timestep + 1).weight_ih)
  /\ grads.weight_ih # Contribution(last.timestep).weight_ih

----------------------------------------------------------------------------
(* C2: for a timestep t > 0, after the backward call the slot dH[t-1]      *)
(* holds the call's contribution: the direct term dh * Z, the candidate-   *)
(* path term and the [Z|R] recurrent term.  The direct term is written     *)
(* over whatever the slot held (line 424 "d_prev_hidden_state = d1"); the  *)
(* other two are added onto it.                                            *)

C2_Body ==
  \A t \in Timesteps :
    BackwardStep /\ last'.timestep = t /\ t > 0 =>
      Slot(d_hidden_states', t - 1) =
        add(Slot(d_hidden_states, t - 1),
            PrevGradientOf(t, d_hidden_states', d_zrg'[t]), 1)

----------------------------------------------------------------------------
(* C3: after a complete backward sweep every accumulator equals the sum,   *)
(* taken from timestep max_timestep - 1 down to 0, of the per-timestep     *)
(* contributions, whatever the accumulator held before the sweep.          *)

\* every accumulator's sum over the calls of timesteps max_timestep - 1
\* down to t
RECURSIVE SweepSum(_)
SweepSum(t) ==
  IF t + 1 = props.max_timestep THEN Contribution(t)
  ELSE TheOne({[p \in DOMAIN c |-> Accumulated(above[p], c[p])] :
                 c \in {Contribution(t)}, above \in {SweepSum(t + 1)}})

SweepDone == pc \in {"derivative", "done"} /\ last.timestep = 0

C3_SweepSumsContributions ==
  SweepDone =>
    \A total \in {SweepSum(0)} :
      \A p \in DOMAIN grads : grads[p] = total[p]

\* a sweep over more than one timestep is complete and two of its calls
\* contributed
C3_Witness ==
  /\ pc = "done" /\ props.max_timestep > 1
  /\ ~IsZero(Contribution(0).weight_ih)
  /\ ~IsZero(Contribution(props.max_timestep - 1).weight_ih)
  /\ ~IsZero(grads.weight_hh)

----------------------------------------------------------------------------
(* C4: a forward call at timestep t writes no slot of the hidden-state     *)
(* ring other than H[t]; no backward operation changes the ring; so during  *)
(* the backward sweep every H[t] still holds what its forward call wrote   *)
(* (the layer output of that timestep).                                    *)

C4_ForwardFrame ==
  \A t \in Timesteps :
    pc \in {"ready", "forward"} /\ last'.op = "forwarding"
      /\ last'.timestep = t =>
        /\ \A s \in Timesteps \ {t} :
             Slot(hidden_states', s) = Slot(hidden_states, s)
        /\ Slot(hidden_states', t) = output'[t]

C4_BackwardFrame ==
  pc \in {"backward", "derivative"} => hidden_states' = hidden_states

C4_KeepsForward ==
  pc \in {"backward", "derivative", "done"} =>
    \A t \in Timesteps : Slot(hidden_states, t) = output[t]

C4_HiddenStateFrame ==
  [][C4_ForwardFrame /\ C4_BackwardFrame]_vars /\ []C4_KeepsForward

\* a whole sweep of more than one timestep has run over non-zero states
C4_Witness ==
  /\ pc = "done" /\ props.max_timestep > 1
  /\ \A t \in Timesteps : ~IsZero(Slot(hidden_states, t))

----------------------------------------------------------------------------
(* C5: with dropout enabled the backward call multiplies the external      *)
(* gradient by the dropout mask of its timestep before adding it into the  *)
(* working slot dH[t]; the mask meets the external gradient only, so what  *)
(* the slot held (zero after the zeroing call, else the gradient handed    *)
(* down by the call of timestep t + 1) enters unmasked.                    *)

C5_Body ==
  \A t \in Timesteps :
    BackwardStep /\ last'.timestep = t /\ props.dropout_rate > epsilon =>
      Slot(d_hidden_states', t) =
        add(IF t + 1 = props.max_timestep
            THEN Tensor(CurrentBatch, props.unit, 0)
            ELSE Slot(d_hidden_states, t),
            multiply(incoming_derivative'[t], dropout_mask[t]), 1)

C5_MaskOnExternalGradientOnly == [][C5_Body]_vars

----------------------------------------------------------------------------
(* C6: finalize fails for every input whose channel count is not 1 or      *)
(* whose height is not 1, and then requests no weight and no tensor; it    *)
(* succeeds only for a single input with channel 1 and height 1.           *)

NothingRequested ==
  /\ \A p \in GRUCellParams : wt_idx[p] = UNSET
  /\ \A p \in DOMAIN weights : weights[p] = <<>>
  /\ hidden_states = <<>>

C6_FinalizeRejectsMultiDim ==
  last.op = "finalize" =>
    /\ last.ok => input_dim.channel = 1 /\ input_dim.height = 1
    /\ ~last.ok => NothingRequested

----------------------------------------------------------------------------
(* C7: when the incoming derivative does not have the shape batch x unit,  *)
(* calcGradient fails, and a failed call has added no contribution: every  *)
(* accumulator, every slot of dH and the gate gradients are what they were *)
(* before the call or, in the zeroing call, zero.                          *)

C7_Body ==
  \A t \in Timesteps :
    pc = "backward" /\ last'.op = "calcGradient" /\ last'.timestep = t =>
      /\ (Rows(incoming_derivative'[t]) # CurrentBatch
            \/ Cols(incoming_derivative'[t]) # props.unit) => ~last'.ok
      /\ ~last'.ok =>
           /\ \A p \in DOMAIN grads :
                grads'[p] = IF t + 1 = props.max_timestep
                            THEN cgZeroGrads(grads)[p] ELSE grads[p]
           /\ \A s \in Timesteps :
                Slot(d_hidden_states', s) =
                  IF s = t /\ t + 1 = props.max_timestep
                  THEN Tensor(CurrentBatch, props.unit, 0)
                  ELSE Slot(d_hidden_states, s)
           /\ d_zrg' = d_zrg

----------------------------------------------------------------------------
(* C8: after setBatch(b) the hidden-state ring (and its gradient) has      *)
(* max_timestep * b rows, the gate scratch b rows, the dropout mask b rows *)
(* and is resized only when dropout_rate > epsilon; max_timestep and the   *)
(* other properties are unchanged; setBatch(b) after setBatch(b) leaves    *)
(* every size as it was; every slot t < max_timestep lies inside the ring. *)

Sizes ==
  <<Rows(hidden_states), Cols(hidden_states), Rows(d_hidden_states),
    Cols(d_hidden_states),
    [t \in Timesteps |->
       <<Rows(zrg[t]), Cols(zrg[t]), Rows(d_zrg[t]), Cols(d_zrg[t])>>],
    [t \in DOMAIN dropout_mask |->
       <<Rows(dropout_mask[t]), Cols(dropout_mask[t])>>]>>

C8_Body ==
  pc = "ready" /\ last'.op = "setBatch" =>
    LET b == last'.arg
    IN  /\ Rows(hidden_states') = props.max_timestep * b
        /\ Rows(d_hidden_states') = props.max_timestep * b
        /\ Cols(hidden_states') = props.unit
        /\ \A t \in Timesteps :
             /\ Rows(zrg'[t]) = b /\ Rows(d_zrg'[t]) = b
             /\ Cols(zrg'[t]) = NUM_GATE * props.unit
             /\ (t + 1) * b <= Rows(hidden_states')
             /\ props.dropout_rate > epsilon =>
                  Rows(dropout_mask'[t]) = b
                    /\ Cols(dropout_mask'[t]) = props.unit
        /\ ~(props.dropout_rate > epsilon) => dropout_mask' = dropout_mask
        /\ props' = props
        /\ (last.op = "setBatch" /\ last.arg = b) => Sizes' = Sizes

C8_SetBatchSizes == [][C8_Body]_vars

\* setBatch to a batch above one has acted on a cell with several
\* timesteps and a dropout mask
C8_Witness ==
  /\ last.op = "setBatch" /\ last.arg > 1
  /\ props.max_timestep > 1 /\ props.dropout_rate > epsilon
  /\ Rows(hidden_states) = props.max_timestep * last.arg
  /\ Rows(dropout_mask[0]) = last.arg

----------------------------------------------------------------------------
(* C9: when no dropout mask is applied (dropout_rate <= epsilon, or not    *)
(* training) the output of a forward call, the slot H[t] it writes and the *)
(* gates it leaves are the same whatever the gate scratch and the slot     *)
(* H[t] held before the call: they depend only on the input, H[t-1], the   *)
(* weights, the biases and the flags.                                      *)

PriorContents == {-3, 7}

C9_PriorContentIrrelevant ==
  \A t \in Timesteps :
    last.op = "forwarding" /\ last.timestep = t
      /\ ~fwdDropout(last.arg = 1) =>
        \A v \in PriorContents :
          LET r == forwardingResult(
                     putBatchSlice(hidden_states, t,
                                   Tensor(CurrentBatch, props.unit, v)),
                     Tensor(CurrentBatch, NUM_GATE * props.unit, v),
                     dropout_mask[t], input[t], t, last.arg = 1,
                     dropout_mask[t])
          IN  /\ r.output = output[t]
              /\ Slot(r.hidden_states, t) = Slot(hidden_states, t)
              /\ r.zrg = zrg[t]

\* a forward call after the first has produced a non-zero state without
\* dropout
C9_Witness ==
  /\ last.op = "forwarding" /\ last.timestep > 0
  /\ ~fwdDropout(last.arg = 1)
  /\ ~IsZero(output[last.timestep])
  /\ ~IsZero(PrevHidden(last.timestep))

----------------------------------------------------------------------------
(* C10: for the same input, previous hidden state, weights, biases and     *)
(* bias mode, the forward call with reset_after = true and the one with    *)
(* reset_after = false give the same candidate pre-activation and the same *)
(* new hidden state whenever the reset gate R is all ones, provided the    *)
(* bias is disabled or integrated, or (separate biases) the sums of        *)
(* x.W_ih[G], h_prev.W_hh[G] and bias_hh[G] are exact in float32: with     *)
(* separate biases the variants add bias_hh[G] at different places.        *)

ROnes(t) == GateR(t) = Tensor(CurrentBatch, props.unit, 1)

\* the call of instance t run again with the other reset_after setting
OtherVariant(t) ==
  forwardingResultWith(hidden_states, zrg[t], dropout_mask[t], input[t], t,
                       last.arg = 1, dropout_mask[t], ~props.reset_after)

CandidatePre(t, reset_after) ==
  fwdMemoryCellPre(fwdUpdateResetGate(fwdInputGates(input[t], zrg[t]),
                                      PrevHidden(t)),
                   PrevHidden(t), reset_after)

VariantsAgree(t) ==
  /\ CandidatePre(t, TRUE) = CandidatePre(t, FALSE)
  /\ OtherVariant(t).output = output[t]
  /\ Slot(OtherVariant(t).hidden_states, t) = Slot(hidden_states, t)

\* no sum of the candidate's terms leaves the range float32 holds exactly
ExactSums(t) ==
  LET unit == props.unit
      xw == dot(input[t], getSharedDataTensor(weights.weight_ih, unit,
                                              2 * unit),
                <<>>, FALSE, FALSE, 0)
      hw == dot(PrevHidden(t), getSharedDataTensor(weights.weight_hh, unit,
                                                   2 * unit),
                <<>>, FALSE, FALSE, 0)
  IN  \A i \in 1..CurrentBatch, j \in 1..unit :
        Abs(xw[i][j]) + Abs(hw[i][j])
          + Abs(weights.bias_hh[1][2 * unit + j]) < FloatMantissa

ForwardDone(t) == last.op = "forwarding" /\ last.timestep = t

C10_VariantsAgreeWhenExact ==
  \A t \in Timesteps :
    ForwardDone(t) /\ ROnes(t) /\ (SeparateBias => ExactSums(t)) =>
      VariantsAgree(t)

\* a call with separate biases met an all-ones reset gate and a non-zero
\* previous state, input term and hidden bias
C10_Witness ==
  \E t \in Timesteps :
    /\ ForwardDone(t) /\ ROnes(t) /\ SeparateBias /\ ExactSums(t)
    /\ ~IsZero(PrevHidden(t))
    /\ ~IsZero(multiply(input[t], input[t]))
    /\ ~IsZero(CandidatePre(t, TRUE))

\* the statement as written: agreement whenever R is all ones
C10_VariantsAgree ==
  \A t \in Timesteps : ForwardDone(t) /\ ROnes(t) => VariantsAgree(t)

----------------------------------------------------------------------------
(* C11: the state before timestep 0 is no ring slot.  A forward call with  *)
(* timestep 0 computes what a call reading a stored all-zero previous      *)
(* state computes, whatever the ring holds; a backward call with timestep  *)
(* 0 adds nothing through the previous hidden state (it is zero) and       *)
(* changes no slot of dH other than slot 0.                                *)

\* the forward call of instance 0 run again as a call of timestep 1 on a
\* two-slot ring whose slot 0 is zero
AfterStoredZero ==
  forwardingResultWith(Tensor(2 * CurrentBatch, props.unit, 0), zrg[0],
                       dropout_mask[0], input[0], 1, last.arg = 1,
                       dropout_mask[0], props.reset_after)

\* the forward call of instance 0 run again on a ring filled with v
OnRingOf(v) ==
  forwardingResultWith(Tensor(props.max_timestep * CurrentBatch, props.unit,
                              v),
                       zrg[0], dropout_mask[0], input[0], 0, last.arg = 1,
                       dropout_mask[0], props.reset_after)

C11_Forward ==
  ForwardDone(0) =>
    /\ \A r \in {AfterStoredZero} :
         r.output = output[0] /\ r.zrg = zrg[0]
    /\ \A v \in PriorContents :
         \A r \in {OnRingOf(v)} :
           r.output = output[0] /\ r.zrg = zrg[0]

C11_Backward ==
  BackwardStep /\ last'.timestep = 0 =>
    /\ \A s \in Timesteps \ {0} :
         Slot(d_hidden_states', s) = Slot(d_hidden_states, s)
    /\ grads'.weight_hh = IF props.max_timestep = 1
                          THEN setZero(grads.weight_hh)
                          ELSE grads.weight_hh

C11_ZeroStateNeverStored == [][C11_Backward]_vars /\ []C11_Forward

----------------------------------------------------------------------------
(* C14: a backward call at timestep t changes at most the slots dH[t] and  *)
(* (for t > 0) dH[t-1] of the gradient ring; every other slot holds after  *)
(* the call what it held before, with dropout as without.                  *)

C14_Body ==
  \A t \in Timesteps :
    pc = "backward" /\ last'.op = "calcGradient" /\ last'.timestep = t =>
      \A s \in Timesteps \ {t, t - 1} :
        Slot(d_hidden_states', s) = Slot(d_hidden_states, s)

C14_BackwardFrame == [][C14_Body]_vars

----------------------------------------------------------------------------
(* C12: in every forward call the bias added to a gate's pre-activation is *)
(* nothing when bias is disabled, the gate's bias_h slice once when bias   *)
(* is integrated, and the gate's bias_ih slice once and bias_hh slice once *)
(* when biases are separate.  For the candidate gate with separate biases  *)
(* bias_hh[2U:3U] joins h_prev.W_hh[:, 2U:3U] before the product with R    *)
(* when reset_after is true, and is added after the gated matrix product   *)
(* when reset_after is false.                                              *)

\* columns off .. off + width - 1 of the weight or bias `name`
WeightSlice(name, width, off) ==
  getSharedDataTensor(weights[name], width, off)

\* x.W_ih and h_prev.W_hh restricted to the same columns
InputTerm(t, width, off) ==
  dot(input[t], WeightSlice("weight_ih", width, off), <<>>, FALSE, FALSE, 0)

HiddenTerm(t, width, off) ==
  dot(PrevHidden(t), WeightSlice("weight_hh", width, off), <<>>,
      FALSE, FALSE, 0)

\* the [Z|R] pre-activation with each bias slice added once
UpdateResetPre(t) ==
  LET unit == props.unit
      zr == add(InputTerm(t, 2 * unit, 0), HiddenTerm(t, 2 * unit, 0), 1)
  IN  IF ~BiasEnabled THEN zr
      ELSE IF props.integrate_bias
      THEN add(zr, WeightSlice("bias_h", 2 * unit, 0), 1)
      ELSE add(add(zr, WeightSlice("bias_ih", 2 * unit, 0), 1),
               WeightSlice("bias_hh", 2 * unit, 0), 1)

\* the candidate's recurrent part with bias_hh[2U:3U] at the place the
\* variant gives it
GatedHiddenTerm(t) ==
  LET unit == props.unit
      b_hh == WeightSlice("bias_hh", unit, 2 * unit)
  IN  IF props.reset_after
      THEN multiply(IF SeparateBias
                    THEN add(HiddenTerm(t, unit, 2 * unit), b_hh, 1)
                    ELSE HiddenTerm(t, unit, 2 * unit),
                    GateR(t))
      ELSE dot(multiply(GateR(t), PrevHidden(t)),
               WeightSlice("weight_hh", unit, 2 * unit), <<>>,
               FALSE, FALSE, 0)

\* the candidate pre-activation with each bias slice added once
MemoryCellPre(t) ==
  LET unit == props.unit
      g == add(InputTerm(t, unit, 2 * unit), GatedHiddenTerm(t), 1)
      g_hh == IF SeparateBias /\ ~props.reset_after
              THEN add(g, WeightSlice("bias_hh", unit, 2 * unit), 1) ELSE g
  IN  IF ~BiasEnabled THEN g_hh
      ELSE IF props.integrate_bias
      THEN add(g_hh, WeightSlice("bias_h", unit, 2 * unit), 1)
      ELSE add(g_hh, WeightSlice("bias_ih", unit, 2 * unit), 1)

C12_BiasAddedOnce ==
  \A t \in Timesteps :
    ForwardDone(t) =>
      /\ getSharedDataTensor(zrg[t], 2 * props.unit, 0) =
           run_fn(props.recurrent_activation, UpdateResetPre(t))
      /\ getSharedDataTensor(zrg[t], props.unit, 2 * props.unit) =
           run_fn(props.hidden_state_activation, MemoryCellPre(t))

\* a call with separate non-zero biases and reset_after, where adding
\* bias_hh[2U:3U] after the product with R would give another candidate
C12_Witness ==
  \E t \in Timesteps :
    /\ ForwardDone(t) /\ SeparateBias /\ props.reset_after
    /\ ~IsZero(WeightSlice("bias_ih", NUM_GATE * props.unit, 0))
    /\ ~IsZero(WeightSlice("bias_hh", props.unit, 2 * props.unit))
    /\ ~IsZero(HiddenTerm(t, props.unit, 2 * props.unit))
    /\ GatedHiddenTerm(t) #
         add(multiply(HiddenTerm(t, props.unit, 2 * props.unit), GateR(t)),
             WeightSlice("bias_hh", props.unit, 2 * props.unit), 1)

----------------------------------------------------------------------------
(* C13: under every combination of the flags, forwarding, calcGradient,    *)
(* calcDerivative and setBatch hand the context only entries of wt_idx     *)
(* that finalize assigned, never the unassigned sentinel; bias_h is never  *)
(* requested together with bias_ih or bias_hh, bias_ih and bias_hh are     *)
(* requested together, with bias enabled exactly one of the two modes is   *)
(* requested, and with bias disabled none of the three is.                 *)

\* the entries the last operation used
UsedIndices ==
  CASE last.op = "forwarding" -> forwardingIndices(last.arg = 1)
    [] last.op = "calcGradient" -> calcGradientIndices
    [] last.op = "calcDerivative" -> calcDerivativeIndices
    [] last.op = "setBatch" -> setBatchIndices
    [] OTHER -> {}

Requested(p) == wt_idx[p] # UNSET

Finalized == pc \notin {"created", "error"}

C13_UsesAssignedOnly == \A p \in UsedIndices : Requested(p)

C13_IndicesAssigned ==
  /\ C13_UsesAssignedOnly
  /\ Finalized =>
       /\ Requested("bias_ih") <=> Requested("bias_hh")
       /\ ~(Requested("bias_h") /\ Requested("bias_ih"))
       /\ ~props.disable_bias =>
            (Requested("bias_h") <=> ~Requested("bias_ih"))
       /\ props.disable_bias =>
            ~Requested("bias_h") /\ ~Requested("bias_ih")

\* a backward call has run on a cell with bias disabled and a dropout mask
C13_Witness ==
  /\ last.op = "calcGradient" /\ last.ok
  /\ props.disable_bias /\ props.dropout_rate > epsilon
  /\ "dropout_mask" \in UsedIndices
  /\ ~Requested("bias_h") /\ ~Requested("bias_hh")

\* the statement as written: bias_h is requested exactly when bias_ih and
\* bias_hh are not
C13_BiasHIffNotSeparate ==
  /\ C13_UsesAssignedOnly
  /\ Finalized =>
       (Requested("bias_h") <=>
          (~Requested("bias_ih") /\ ~Requested("bias_hh")))

====
